---------------------------- MODULE Spec2Model ----------------------------
(***************************************************************************)
(* A model of PreFab's Device (src/prefab/device.py) and of the raster     *)
(* transform library it calls (src/prefab/geometry.py).                    *)
(*                                                                         *)
(* A pixel value is an integer number of hundredths (Unit == 100 is 1.0),  *)
(* or the value NaN.  An ndarray is a record [h, w, dtype, a] whose a maps *)
(* <<row, column>> (counted from 0) to a pixel value.  The codec works on  *)
(* the memory of an array: its shape, item size and bytes.                 *)
(***************************************************************************)
EXTENDS Integers, Sequences, FiniteSets, TLC

VARIABLES
    pc,         \* position of the caller of a library function (pure-function specifications)
    arg,        \* the array handed to the function under study
    par,        \* its other parameters
    wire,       \* the codec string between _encode_array and _decode_array
    ret,        \* what the function returned, or the exception it raised
    raw,        \* the array handed to Device(...)
    heap,       \* the ndarray buffers allocated so far
    devices,    \* the Device objects created so far
    np_random,  \* state of numpy's global random generator
    prefab_toml,\* the credential file ~/.prefab.toml
    posted,     \* the requests posted to the prediction service so far
    last,       \* the last Device call: its name, receiver and outcome
    callers     \* the concurrent callers of a service call: where each is in _predict

vars == <<pc, arg, par, wire, ret, raw, heap, devices, np_random, prefab_toml, posted, last,
          callers>>

(***************************************************************************)
(* Bounds of the model.                                                    *)
(***************************************************************************)
CodecMaxDim == 2

(***************************************************************************)
(* Pixel values.                                                           *)
(***************************************************************************)
Unit == 100
NaN == 0 - 1000000

IsNaN(x) == x = NaN
Lt(x, y) == ~IsNaN(x) /\ ~IsNaN(y) /\ x < y
Ge(x, y) == ~IsNaN(x) /\ ~IsNaN(y) /\ x >= y
Add(x, y) == IF IsNaN(x) \/ IsNaN(y) THEN NaN ELSE x + y
Sub(x, y) == IF IsNaN(x) \/ IsNaN(y) THEN NaN ELSE x - y

Min2(x, y) == IF x < y THEN x ELSE y
Max2(x, y) == IF x > y THEN x ELSE y

RECURSIVE SetMin(_)
SetMin(S) == LET x == CHOOSE x \in S : TRUE
             IN IF S = {x} THEN x ELSE Min2(x, SetMin(S \ {x}))
RECURSIVE SetMax(_)
SetMax(S) == LET x == CHOOSE x \in S : TRUE
             IN IF S = {x} THEN x ELSE Max2(x, SetMax(S \ {x}))

(***************************************************************************)
(* ndarrays.                                                               *)
(***************************************************************************)
Cells(h, w) == (0 .. h - 1) \X (0 .. w - 1)
NdArray(h, w, dtype, f) == [h |-> h, w |-> w, dtype |-> dtype, a |-> f]
Values(A) == {A.a[c] : c \in Cells(A.h, A.w)}
NoArray == NdArray(0, 0, "none", <<>>)

(***************************************************************************)
(* The binary codec: Device._encode_array and Device._decode_array.        *)
(* The memory of an array is [h, w, itemsize, mem], mem its bytes in row   *)
(* major order (what array.tobytes() returns).                             *)
(***************************************************************************)
Memory(h, w, itemsize, mem) == [h |-> h, w |-> w, itemsize |-> itemsize, mem |-> mem]

\* struct.pack(">I", n): four bytes, most significant first
PackBE(n) == << (n \div 16777216) % 256, (n \div 65536) % 256, (n \div 256) % 256, n % 256 >>
\* struct.unpack(">I", b)
UnpackBE(b) == ((b[1] * 256 + b[2]) * 256 + b[3]) * 256 + b[4]

B64Pad == 64

\* base64.b64encode: three bytes become four 6-bit characters; a last group of one or
\* two bytes is padded with "="
RECURSIVE b64encode(_)
b64encode(bytes) ==
    IF Len(bytes) = 0 THEN << >>
    ELSE IF Len(bytes) = 1 THEN
        << bytes[1] \div 4, (bytes[1] % 4) * 16, B64Pad, B64Pad >>
    ELSE IF Len(bytes) = 2 THEN
        << bytes[1] \div 4, (bytes[1] % 4) * 16 + bytes[2] \div 16,
           (bytes[2] % 16) * 4, B64Pad >>
    ELSE
        << bytes[1] \div 4, (bytes[1] % 4) * 16 + bytes[2] \div 16,
           (bytes[2] % 16) * 4 + bytes[3] \div 64, bytes[3] % 64 >>
        \o b64encode(SubSeq(bytes, 4, Len(bytes)))

\* base64.b64decode: four characters become three bytes, fewer before padding
RECURSIVE b64decode(_)
b64decode(text) ==
    IF Len(text) < 4 THEN << >>
    ELSE LET c1 == text[1]
             c2 == text[2]
             c3 == text[3]
             c4 == text[4]
             b1 == c1 * 4 + c2 \div 16
             b2 == (c2 % 16) * 16 + c3 \div 4
             b3 == (c3 % 4) * 64 + c4
         IN IF c3 = B64Pad THEN << b1 >>
            ELSE IF c4 = B64Pad THEN << b1, b2 >>
            ELSE << b1, b2, b3 >> \o b64decode(SubSeq(text, 5, Len(text)))

\* _encode_array with the two header fields in the other order
_encode_array_width_first(array) ==
    LET array_shape == PackBE(array.w) \o PackBE(array.h)
        serialized_array == array_shape \o array.mem
    IN b64encode(serialized_array)

\* Device._encode_array(array): len(array) and len(array[0]) as the header, then the bytes
_encode_array(array) ==
    LET array_shape == PackBE(array.h) \o PackBE(array.w)
        serialized_array == array_shape \o array.mem
    IN b64encode(serialized_array)

\* Device._decode_array(encoded_array): the bytes from offset 8 read as float32 and
\* given the shape of the header; ValueError when the bytes are not whole float32
\* items or not as many as the shape asks for
_decode_array(encoded_array) ==
    LET serialized_array == b64decode(encoded_array)
        n == Len(serialized_array) - 8
        h == UnpackBE(SubSeq(serialized_array, 1, 4))
        w == UnpackBE(SubSeq(serialized_array, 5, 8))
    IN IF n < 0 \/ n % 4 # 0 \/ h * w * 4 # n
       THEN [exc |-> "ValueError"]
       ELSE [exc |-> "none",
             array |-> Memory(h, w, 4, SubSeq(serialized_array, 9, Len(serialized_array)))]

\* float32 bit patterns (little endian): 0.0, 0.3, NaN
F32Words == { <<0, 0, 0, 0>>, <<154, 153, 153, 62>>, <<0, 0, 192, 127>> }

RECURSIVE Flatten(_)
Flatten(words) == IF Len(words) = 0 THEN << >> ELSE Head(words) \o Flatten(Tail(words))

\* the float32 arrays with 1..dim rows and columns over F32Words
Float32Arrays(dim) ==
    UNION { { Memory(h, w, 4, Flatten(ws)) : ws \in [1 .. h * w -> F32Words] } :
            <<h, w>> \in (1 .. dim) \X (1 .. dim) }

Idle == /\ raw = NoArray
        /\ heap = << >>
        /\ devices = << >>
        /\ np_random = 0
        /\ prefab_toml = [access_token |-> 1, refresh_token |-> 1]
        /\ posted = 0
        /\ last = [op |-> "none"]
        /\ callers = << >>

IdleUnchanged == UNCHANGED <<raw, heap, devices, np_random, prefab_toml, posted, last, callers>>

InitCodec == /\ pc = "start"
             /\ arg \in Float32Arrays(CodecMaxDim)
             /\ par = << >>
             /\ wire = << >>
             /\ ret = [exc |-> "none"]
             /\ Idle

Encode == /\ pc = "start"
          /\ wire' = _encode_array(arg)
          /\ pc' = "encoded"
          /\ UNCHANGED <<arg, par, ret>>
          /\ IdleUnchanged

Decode == /\ pc = "encoded"
          /\ ret' = _decode_array(wire)
          /\ pc' = "decoded"
          /\ UNCHANGED <<arg, par, wire>>
          /\ IdleUnchanged

NextCodec == Encode \/ Decode

SpecCodec == InitCodec /\ [][NextCodec]_vars

\* C1: decoding the encoding of a float32 array with at least one row and one column
\* gives an array of the same height and width holding the same bytes.
C1_CodecRoundTrip ==
    pc = "decoded" =>
        /\ ret.exc = "none"
        /\ ret.array.h = arg.h
        /\ ret.array.w = arg.w
        /\ ret.array.mem = arg.mem

\* a 2 x 1 array (header fields differ) whose payload needs base64 padding has made the trip
C1_Witness ==
    /\ pc = "decoded"
    /\ arg.h = 2
    /\ arg.w = 1
    /\ wire[Len(wire)] = B64Pad
    /\ arg.mem[5] = 154


(***************************************************************************)
(* The raster transform library, src/prefab/geometry.py.                   *)
(***************************************************************************)
GeomMaxCells == 3

np_min(A) == IF NaN \in Values(A) THEN NaN ELSE SetMin(Values(A))
np_max(A) == IF NaN \in Values(A) THEN NaN ELSE SetMax(Values(A))

\* x / y in floating point, for the non-negative x that normalize divides: 0 / 0 is
\* NaN, and x is 0 whenever y is (y is max - min, x a value - min)
Div(x, y) == IF IsNaN(x) \/ IsNaN(y) \/ y = 0 THEN NaN ELSE (x * Unit) \div y

\* normalize(device_array): (device_array - min) / (max - min)
normalize(A) ==
    LET lo == np_min(A)
        hi == np_max(A)
    IN NdArray(A.h, A.w, A.dtype,
               [c \in Cells(A.h, A.w) |-> Div(Sub(A.a[c], lo), Sub(hi, lo))])

\* binarize_hard comparing with <= in place of <
binarize_hard_le(A, eta) ==
    NdArray(A.h, A.w, "float64",
            [c \in Cells(A.h, A.w) |-> IF Lt(A.a[c], eta) \/ A.a[c] = eta THEN 0 ELSE Unit])

\* np.where(device_array < eta, 0.0, 1.0): a float64 array
binarize_hard(A, eta) ==
    NdArray(A.h, A.w, "float64",
            [c \in Cells(A.h, A.w) |-> IF Lt(A.a[c], eta) THEN 0 ELSE Unit])

\* ternarize comparing with > in place of >= at the upper threshold
ternarize_gt(A, eta1, eta2) ==
    NdArray(A.h, A.w, "float64",
            [c \in Cells(A.h, A.w) |->
                IF Lt(A.a[c], eta1) THEN 0
                ELSE IF Ge(A.a[c], eta2) /\ A.a[c] # eta2 THEN Unit ELSE Unit \div 2])

\* np.where(device_array < eta1, 0.0, np.where(device_array >= eta2, 1.0, 0.5))
ternarize(A, eta1, eta2) ==
    NdArray(A.h, A.w, "float64",
            [c \in Cells(A.h, A.w) |->
                IF Lt(A.a[c], eta1) THEN 0
                ELSE IF Ge(A.a[c], eta2) THEN Unit ELSE Unit \div 2])

\* the index cv2 reads for index i of an axis of n items, BORDER_REFLECT_101, one
\* step outside at most
Reflect101(i, n) == IF n = 1 THEN 0
                    ELSE IF i < 0 THEN 0 - i
                    ELSE IF i >= n THEN 2 * (n - 1) - i
                    ELSE i

Sum3(x, y, z) == Add(Add(x, y), Add(y, z))

\* cv2.GaussianBlur(src, ksize=(0, 0), sigmaX=sigma): a separable smoothing kernel
\* whose weights sum to 1, reflected borders; the kernel is taken as (1, 2, 1) / 4
GaussianBlur(A, sigma) ==
    LET rowPass == [c \in Cells(A.h, A.w) |->
                      Sum3(A.a[<<c[1], Reflect101(c[2] - 1, A.w)>>], A.a[c],
                           A.a[<<c[1], Reflect101(c[2] + 1, A.w)>>])]
        colPass == [c \in Cells(A.h, A.w) |->
                      Sum3(rowPass[<<Reflect101(c[1] - 1, A.h), c[2]>>], rowPass[c],
                           rowPass[<<Reflect101(c[1] + 1, A.h), c[2]>>])]
    IN NdArray(A.h, A.w, A.dtype,
               [c \in Cells(A.h, A.w) |->
                   IF IsNaN(colPass[c]) THEN NaN ELSE colPass[c] \div 16])

\* blur(device_array, sigma): normalize(cv2.GaussianBlur(...))
blur(A, sigma) == normalize(GaussianBlur(A, sigma))

\* pixel values and thresholds the pure-function specifications draw from
GeomValues == {0 - 50, 0, 50, 100, 150, NaN}
Etas == {0 - 50, 0, 50, 100, 150}

GeomShapes == { s \in (1 .. GeomMaxCells) \X (1 .. GeomMaxCells) : s[1] * s[2] <= GeomMaxCells }

GeomArrays ==
    UNION { { NdArray(s[1], s[2], "float32", f) : f \in [Cells(s[1], s[2]) -> GeomValues] } :
            s \in GeomShapes }

InitGeom == /\ pc = "start"
            /\ arg \in GeomArrays
            /\ par = << >>
            /\ wire = << >>
            /\ ret = [exc |-> "none"]
            /\ Idle

Returns(fn, params, A) ==
    /\ pc = "start"
    /\ pc' = fn
    /\ par' = params
    /\ ret' = [exc |-> "none", array |-> A]
    /\ UNCHANGED <<arg, wire>>
    /\ IdleUnchanged

CallNormalize == Returns("normalize", << >>, normalize(arg))
CallBinarizeHard == \E eta \in Etas : Returns("binarize_hard", <<eta>>, binarize_hard(arg, eta))
CallTernarize == \E eta1, eta2 \in Etas :
                    eta1 < eta2 /\ Returns("ternarize", <<eta1, eta2>>, ternarize(arg, eta1, eta2))
CallBlur == Returns("blur", <<1>>, blur(arg, 1))

NextGeom == CallNormalize \/ CallBinarizeHard \/ CallTernarize \/ CallBlur

SpecGeom == InitGeom /\ [][NextGeom]_vars

\* C5 as claimed: for every raster and every threshold, applying binarize_hard to its
\* own result with the same threshold changes nothing.
C5_IdempotentAnyEta ==
    pc = "binarize_hard" => binarize_hard(ret.array, par[1]).a = ret.array.a

InUnitRange(A) == \A x \in Values(A) : ~IsNaN(x) /\ 0 <= x /\ x <= Unit

\* C5 as amended: binarize_hard maps a value strictly below eta to 0 and every other
\* value to 1, and applying it again with the same eta changes nothing when
\* 0 < eta <= 1 or when every value of the raster lies in [0, 1].
C5_IdempotentUnitEta ==
    pc = "binarize_hard" =>
        /\ \A c \in Cells(arg.h, arg.w) :
              ret.array.a[c] = IF arg.a[c] # NaN /\ arg.a[c] < par[1] THEN 0 ELSE Unit
        /\ ((0 < par[1] /\ par[1] <= Unit) \/ InUnitRange(arg))
              => binarize_hard(ret.array, par[1]).a = ret.array.a

\* a raster with a value below, one equal to and one above the threshold 1.0 was binarized
C5_Witness ==
    /\ pc = "binarize_hard"
    /\ par[1] = Unit
    /\ {50, 100, 150} \subseteq Values(arg)
    /\ Values(ret.array) = {0, Unit}

\* C6: for eta1 < eta2 every output pixel of ternarize is 0 below eta1, 1 from eta2 on
\* and 0.5 otherwise, so the output takes values in {0, 0.5, 1} only and does not
\* decrease when the input value grows.
C6_TernarizeLevels ==
    pc = "ternarize" =>
        /\ \A c \in Cells(arg.h, arg.w) :
              LET x == arg.a[c]
                  y == ret.array.a[c]
              IN /\ y \in {0, 50, 100}
                 /\ (x # NaN /\ x < par[1]) => y = 0
                 /\ (x # NaN /\ x >= par[2]) => y = 100
                 /\ ~(x # NaN /\ x < par[1]) /\ ~(x # NaN /\ x >= par[2]) => y = 50
        /\ \A c, d \in Cells(arg.h, arg.w) :
              (arg.a[c] # NaN /\ arg.a[d] # NaN /\ arg.a[c] <= arg.a[d])
                  => ret.array.a[c] <= ret.array.a[d]

\* a raster with a value on each threshold and one below both was ternarized to all
\* three levels
C6_Witness ==
    /\ pc = "ternarize"
    /\ par = <<50, 100>>
    /\ Values(arg) = {0, 50, 100}
    /\ Values(ret.array) = {0, 50, 100}

\* C10: on a raster of numbers, normalize and blur map the minimum to 0 and the
\* maximum to 1, and on a flat raster they raise an error or return a raster free of
\* NaN: they never return NaN values without an error.
C10_NoSilentNaN ==
    (pc \in {"normalize", "blur"} /\ NaN \notin Values(arg)) =>
        \/ ret.exc # "none"
        \/ NaN \notin Values(ret.array)

(***************************************************************************)
(* geometry.trim                                                           *)
(***************************************************************************)
TrimMaxDim == 8
TrimMaxPad == 2

\* np.nonzero(device_array): the cells whose value is not 0 (NaN is not 0)
nonzero(A) == {c \in Cells(A.h, A.w) : A.a[c] # 0}

\* device_array[r0:r1, c0:c1] for 0 <= r0 <= r1 <= h and 0 <= c0 <= c1 <= w
Slice(A, r0, r1, c0, c1) ==
    NdArray(r1 - r0, c1 - c0, A.dtype,
            [c \in Cells(r1 - r0, c1 - c0) |-> A.a[<<r0 + c[1], c0 + c[2]>>]])

\* trim's window without the + 1 that makes the last row and column inclusive
trim_window_exclusive(A, buffer_thickness) ==
    LET nonzero_rows == {c[1] : c \in nonzero(A)}
        nonzero_cols == {c[2] : c \in nonzero(A)}
    IN IF nonzero(A) = {} THEN [exc |-> "ValueError"]
       ELSE [exc |-> "none",
             row_min |-> Max2(SetMin(nonzero_rows) - buffer_thickness, 0),
             row_max |-> Min2(SetMax(nonzero_rows) + buffer_thickness, A.h),
             col_min |-> Max2(SetMin(nonzero_cols) - buffer_thickness, 0),
             col_max |-> Min2(SetMax(nonzero_cols) + buffer_thickness, A.w)]

\* trim's window, an array without a nonzero element being kept whole
trim_window_whole(A, buffer_thickness) ==
    LET nonzero_rows == {c[1] : c \in nonzero(A)}
        nonzero_cols == {c[2] : c \in nonzero(A)}
    IN IF nonzero(A) = {}
       THEN [exc |-> "none", row_min |-> 0, row_max |-> A.h, col_min |-> 0, col_max |-> A.w]
       ELSE [exc |-> "none",
             row_min |-> Max2(SetMin(nonzero_rows) - buffer_thickness, 0),
             row_max |-> Min2(SetMax(nonzero_rows) + buffer_thickness + 1, A.h),
             col_min |-> Max2(SetMin(nonzero_cols) - buffer_thickness, 0),
             col_max |-> Min2(SetMax(nonzero_cols) + buffer_thickness + 1, A.w)]

\* the window trim(device_array, buffer_thickness) slices out; min() of the empty
\* index array raises ValueError
trim_window(A, buffer_thickness) ==
    LET nonzero_rows == {c[1] : c \in nonzero(A)}
        nonzero_cols == {c[2] : c \in nonzero(A)}
    IN IF nonzero(A) = {} THEN [exc |-> "ValueError"]
       ELSE [exc |-> "none",
             row_min |-> Max2(SetMin(nonzero_rows) - buffer_thickness, 0),
             row_max |-> Min2(SetMax(nonzero_rows) + buffer_thickness + 1, A.h),
             col_min |-> Max2(SetMin(nonzero_cols) - buffer_thickness, 0),
             col_max |-> Min2(SetMax(nonzero_cols) + buffer_thickness + 1, A.w)]

\* trim(device_array, buffer_thickness): the window and the array seen through it
trim(A, buffer_thickness) ==
    LET win == trim_window(A, buffer_thickness)
    IN IF win.exc # "none" THEN win
       ELSE [exc |-> "none", row_min |-> win.row_min, col_min |-> win.col_min,
             array |-> Slice(A, win.row_min, win.row_max, win.col_min, win.col_max)]

\* rasters of zeros with up to two other pixels: 1.0 at p, and 0.5 at a corner q
Spotted(h, w, p, q) ==
    NdArray(h, w, "float32",
            [c \in Cells(h, w) |-> IF c = p THEN Unit ELSE IF c = q THEN Unit \div 2 ELSE 0])

TrimArrays ==
    UNION { { Spotted(s[1], s[2], pq[1], pq[2]) :
                pq \in { x \in Cells(s[1], s[2]) \X Cells(s[1], s[2]) :
                           x[2] \in {x[1], <<s[1] - 1, s[2] - 1>>, <<0, s[2] - 1>>} } }
            \cup { NdArray(s[1], s[2], "float32", [c \in Cells(s[1], s[2]) |-> 0]) } :
            s \in (1 .. TrimMaxDim) \X (1 .. TrimMaxDim) }

InitTrim == /\ pc = "start"
            /\ arg \in TrimArrays
            /\ par = << >>
            /\ wire = << >>
            /\ ret = [exc |-> "none"]
            /\ Idle

CallTrim == \E b \in 0 .. TrimMaxPad :
                /\ pc = "start"
                /\ pc' = "trim"
                /\ par' = <<b>>
                /\ ret' = trim(arg, b)
                /\ UNCHANGED <<arg, wire>>
                /\ IdleUnchanged

NextTrim == CallTrim

SpecTrim == InitTrim /\ [][NextTrim]_vars

\* the first and the last row, and column, holding a value other than 0
RowMin(A) == CHOOSE r \in 0 .. A.h - 1 :
                /\ \E c \in nonzero(A) : c[1] = r
                /\ \A c \in nonzero(A) : c[1] >= r
RowMax(A) == CHOOSE r \in 0 .. A.h - 1 :
                /\ \E c \in nonzero(A) : c[1] = r
                /\ \A c \in nonzero(A) : c[1] <= r
ColMin(A) == CHOOSE r \in 0 .. A.w - 1 :
                /\ \E c \in nonzero(A) : c[2] = r
                /\ \A c \in nonzero(A) : c[2] >= r
ColMax(A) == CHOOSE r \in 0 .. A.w - 1 :
                /\ \E c \in nonzero(A) : c[2] = r
                /\ \A c \in nonzero(A) : c[2] <= r

\* C8: on a raster with a nonzero element, trim returns the rows
\* max(rmin - b, 0) .. min(rmax + b, H - 1) and the columns
\* max(cmin - b, 0) .. min(cmax + b, W - 1) of it, a window that holds every nonzero
\* element; one nonzero pixel at (5, 5) with b = 2 gives the 5 x 5 window from (3, 3)
\* when the raster reaches to (7, 7).
C8_TrimWindow ==
    (pc = "trim" /\ nonzero(arg) # {}) =>
        LET b == par[1]
            top == Max2(RowMin(arg) - b, 0)
            bottom == Min2(RowMax(arg) + b, arg.h - 1)
            left == Max2(ColMin(arg) - b, 0)
            right == Min2(ColMax(arg) + b, arg.w - 1)
        IN /\ ret.exc = "none"
           /\ ret.row_min = top
           /\ ret.col_min = left
           /\ ret.array.h = bottom - top + 1
           /\ ret.array.w = right - left + 1
           /\ \A c \in Cells(ret.array.h, ret.array.w) :
                 ret.array.a[c] = arg.a[<<top + c[1], left + c[2]>>]
           /\ \A c \in nonzero(arg) :
                 /\ top <= c[1] /\ c[1] <= bottom
                 /\ left <= c[2] /\ c[2] <= right
           /\ (nonzero(arg) = {<<5, 5>>} /\ b = 2 /\ arg.h >= 8 /\ arg.w >= 8) =>
                 /\ ret.row_min = 3 /\ ret.col_min = 3
                 /\ ret.array.h = 5 /\ ret.array.w = 5

\* the raster with its one nonzero pixel at (5, 5) was trimmed with b = 2
C8_Witness ==
    /\ pc = "trim"
    /\ nonzero(arg) = {<<5, 5>>}
    /\ par = <<2>>
    /\ arg.h >= 8 /\ arg.w >= 8
    /\ ret.exc = "none"

(***************************************************************************)
(* Device: construction and the buffer, src/prefab/device.py.              *)
(***************************************************************************)
BufMaxDim == 2
BufMaxThick == 2

Modes == {"constant", "edge"}
Sides == {"top", "bottom", "left", "right"}

\* BufferSpec(mode=..., thickness=...)
BufferSpec(mode, thickness) == [mode |-> mode, thickness |-> thickness]

\* np.pad whose "edge" repeats the first item of the array in every new place
np_pad_first_item(A, side, t, mode) ==
    LET h == IF side \in {"top", "bottom"} THEN A.h + t ELSE A.h
        w == IF side \in {"left", "right"} THEN A.w + t ELSE A.w
        dr == IF side = "top" THEN t ELSE 0
        dc == IF side = "left" THEN t ELSE 0
        inside(c) == /\ dr <= c[1] /\ c[1] < dr + A.h
                     /\ dc <= c[2] /\ c[2] < dc + A.w
        emptyAxis == IF side \in {"top", "bottom"} THEN A.h = 0 ELSE A.w = 0
    IN IF mode = "edge" /\ emptyAxis
       THEN [exc |-> "ValueError"]
       ELSE [exc |-> "none",
             array |-> NdArray(h, w, A.dtype,
                 [c \in Cells(h, w) |->
                     IF inside(c) THEN A.a[<<c[1] - dr, c[2] - dc>>]
                     ELSE IF mode = "constant" \/ A.h = 0 \/ A.w = 0 THEN 0
                     ELSE A.a[<<0, 0>>]])]

\* np.pad(array, pad_width, mode) with pad_width putting t rows or columns on one
\* side: "constant" fills them with 0, "edge" repeats the nearest row or column and
\* raises ValueError when asked to extend an axis of length 0
np_pad(A, side, t, mode) ==
    LET h == IF side \in {"top", "bottom"} THEN A.h + t ELSE A.h
        w == IF side \in {"left", "right"} THEN A.w + t ELSE A.w
        dr == IF side = "top" THEN t ELSE 0
        dc == IF side = "left" THEN t ELSE 0
        inside(c) == /\ dr <= c[1] /\ c[1] < dr + A.h
                     /\ dc <= c[2] /\ c[2] < dc + A.w
        clampRow(r) == Min2(Max2(r - dr, 0), A.h - 1)
        clampCol(x) == Min2(Max2(x - dc, 0), A.w - 1)
        emptyAxis == IF side \in {"top", "bottom"} THEN A.h = 0 ELSE A.w = 0
    IN IF mode = "edge" /\ emptyAxis
       THEN [exc |-> "ValueError"]
       ELSE [exc |-> "none",
             array |-> NdArray(h, w, A.dtype,
                 [c \in Cells(h, w) |->
                     IF inside(c) THEN A.a[<<c[1] - dr, c[2] - dc>>]
                     ELSE IF mode = "constant" THEN 0
                     ELSE A.a[<<clampRow(c[1]), clampCol(c[2])>>]])]

\* one pad step of _initial_processing, skipped once a step has raised;
\* buffer_mode[side] raises KeyError when the mode has no such side
PadStep(res, side, buffer_spec) ==
    IF res.exc # "none" THEN res
    ELSE IF side \notin DOMAIN buffer_spec.mode THEN [exc |-> "KeyError"]
    ELSE np_pad(res.array, side, buffer_spec.thickness, buffer_spec.mode[side])

\* array.astype(np.float32)
astype_float32(A) == NdArray(A.h, A.w, "float32", A.a)

\* Device._initial_processing: pad top, bottom, left, right, then cast to float32
_initial_processing(device_array, buffer_spec) ==
    LET padded == PadStep(PadStep(PadStep(PadStep(
                      [exc |-> "none", array |-> device_array],
                      "top", buffer_spec), "bottom", buffer_spec),
                      "left", buffer_spec), "right", buffer_spec)
    IN IF padded.exc # "none" THEN padded
       ELSE [exc |-> "none", array |-> astype_float32(padded.array)]

\* what a Device's device_array attribute refers to: rows and columns of a buffer of
\* the heap (a whole buffer, or the view a slice of another array is)
Ref(base, row0, col0, h, w) == [base |-> base, row0 |-> row0, col0 |-> col0, h |-> h, w |-> w]
WholeRef(base, A) == Ref(base, 0, 0, A.h, A.w)

\* the array a reference shows, given the heap
Deref(hp, ref) ==
    Slice(hp[ref.base], ref.row0, ref.row0 + ref.h, ref.col0, ref.col0 + ref.w)

\* self.device_array of a Device
self_device_array(d) == Deref(heap, d.array)

\* a Device object: its array, its BufferSpec, and the call that made it
Device(ref, buffer_spec, by) == [array |-> ref, buffer_spec |-> buffer_spec, by |-> by]

\* the index a slice's stop s means on an axis of n items: a negative stop counts
\* from the end
PyStop(s, n) == IF s < 0 THEN Max2(s + n, 0) ELSE Min2(s, n)

\* to_ndarray cropping the bottom by the mode of the top
to_ndarray_bottom_as_top(d) ==
    LET A == self_device_array(d)
        buffer_thickness == d.buffer_spec.thickness
        buffer_mode == d.buffer_spec.mode
        crop_top == IF buffer_mode["top"] = "edge" THEN buffer_thickness ELSE 0
        crop_bottom == IF buffer_mode["top"] = "edge" THEN buffer_thickness ELSE 0
        crop_left == IF buffer_mode["left"] = "edge" THEN buffer_thickness ELSE 0
        crop_right == IF buffer_mode["right"] = "edge" THEN buffer_thickness ELSE 0
        r0 == Min2(crop_top, A.h)
        r1 == Max2(PyStop(A.h - crop_bottom, A.h), r0)
        c0 == Min2(crop_left, A.w)
        c1 == Max2(PyStop(A.w - crop_right, A.w), c0)
    IN Slice(A, r0, r1, c0, c1)

\* Device.to_ndarray: a copy, cropped by thickness on the sides whose mode is "edge"
to_ndarray(d) ==
    LET A == self_device_array(d)
        buffer_thickness == d.buffer_spec.thickness
        buffer_mode == d.buffer_spec.mode
        crop_top == IF buffer_mode["top"] = "edge" THEN buffer_thickness ELSE 0
        crop_bottom == IF buffer_mode["bottom"] = "edge" THEN buffer_thickness ELSE 0
        crop_left == IF buffer_mode["left"] = "edge" THEN buffer_thickness ELSE 0
        crop_right == IF buffer_mode["right"] = "edge" THEN buffer_thickness ELSE 0
        r0 == Min2(crop_top, A.h)
        r1 == Max2(PyStop(A.h - crop_bottom, A.h), r0)
        c0 == Min2(crop_left, A.w)
        c1 == Max2(PyStop(A.w - crop_right, A.w), c0)
    IN Slice(A, r0, r1, c0, c1)

\* the sorted distinct values np.unique returns, NaN last
RECURSIVE Sorted(_)
Sorted(S) == IF S = {} THEN << >>
             ELSE IF S = {NaN} THEN << NaN >>
             ELSE LET x == SetMin(S \ {NaN}) IN << x >> \o Sorted(S \ {x})
np_unique(A) == Sorted(Values(A))

\* np.array_equal(a1, a2): same length and equal items (NaN equals nothing)
array_equal(a1, a2) ==
    /\ Len(a1) = Len(a2)
    /\ \A i \in 1 .. Len(a1) : ~IsNaN(a1[i]) /\ ~IsNaN(a2[i]) /\ a1[i] = a2[i]

\* is_binary without the comparison to [1]
is_binary_no_ones(d) ==
    LET unique_values == np_unique(self_device_array(d))
    IN \/ array_equal(unique_values, <<0, Unit>>)
       \/ array_equal(unique_values, <<Unit, 0>>)
       \/ array_equal(unique_values, <<0>>)

\* Device.is_binary
is_binary(d) ==
    LET unique_values == np_unique(self_device_array(d))
    IN \/ array_equal(unique_values, <<0, Unit>>)
       \/ array_equal(unique_values, <<Unit, 0>>)
       \/ array_equal(unique_values, <<0>>)
       \/ array_equal(unique_values, <<Unit>>)

\* Device(device_array, buffer_spec): the validated fields, then _initial_processing;
\* an exception leaves no Device
Construct(device_array, buffer_spec) ==
    LET res == _initial_processing(device_array, buffer_spec)
    IN /\ devices = << >>
       /\ raw' = device_array
       /\ IF res.exc # "none"
          THEN /\ last' = [op |-> "__init__", recv |-> 0, exc |-> res.exc]
               /\ UNCHANGED <<heap, devices>>
          ELSE /\ heap' = << res.array >>
               /\ devices' = << Device(WholeRef(1, res.array), buffer_spec,
                                       [op |-> "__init__", recv |-> 0, params |-> << >>]) >>
               /\ last' = [op |-> "__init__", recv |-> 0, exc |-> "none"]
       /\ UNCHANGED <<pc, arg, par, wire, ret, np_random, prefab_toml, posted, callers>>

\* what a caller hands to Device(...) as device_array: an ndarray or not (a nested
\* list), of some number of dimensions, and its items when there are two
Given(ndarray, ndim, array) == [ndarray |-> ndarray, ndim |-> ndim, array |-> array]

\* check_device_array without the isinstance test
check_device_array_any_type(device_array) ==
    IF device_array.ndim # 2 THEN "ValueError" ELSE "none"

\* Device.check_device_array, the validator run before the fields are set
check_device_array(device_array) ==
    IF ~device_array.ndarray THEN "ValueError"
    ELSE IF device_array.ndim # 2 THEN "ValueError"
    ELSE "none"

\* Device.__init__ on any input: check_device_array, then _initial_processing; an
\* exception leaves no Device
Device_init(device_array, buffer_spec) ==
    LET rejected == check_device_array(device_array)
        res == IF rejected # "none" THEN [exc |-> rejected]
               ELSE _initial_processing(device_array.array, buffer_spec)
    IN /\ devices = << >>
       /\ raw' = device_array
       /\ IF res.exc # "none"
          THEN /\ last' = [op |-> "__init__", recv |-> 0, exc |-> res.exc]
               /\ UNCHANGED <<heap, devices>>
          ELSE /\ heap' = << res.array >>
               /\ devices' = << Device(WholeRef(1, res.array), buffer_spec,
                                       [op |-> "__init__", recv |-> 0, params |-> << >>]) >>
               /\ last' = [op |-> "__init__", recv |-> 0, exc |-> "none"]
       /\ UNCHANGED <<pc, arg, par, wire, ret, np_random, prefab_toml, posted, callers>>

\* an input of the given shape whose values are all different and none 0
Numbered(h, w) == NdArray(h, w, "float64", [c \in Cells(h, w) |-> 10 * (c[1] + 1) + c[2] + 1])

BufferRaws == { Numbered(s[1], s[2]) : s \in (0 .. BufMaxDim) \X (0 .. BufMaxDim) }
BufferSpecs == { BufferSpec(m, t) : m \in [Sides -> Modes], t \in 1 .. BufMaxThick }

InitDevice == /\ pc = "start"
              /\ arg = NoArray
              /\ par = << >>
              /\ wire = << >>
              /\ ret = [exc |-> "none"]
              /\ Idle

ConstructBuffered == \E A \in BufferRaws, bs \in BufferSpecs :
                        last.op = "none" /\ Construct(A, bs)

CallToNdarray == /\ Len(devices) = 1
                 /\ pc = "start"
                 /\ pc' = "to_ndarray"
                 /\ ret' = [exc |-> "none", array |-> to_ndarray(devices[1])]
                 /\ UNCHANGED <<arg, par, wire, raw, heap, devices, np_random, prefab_toml, posted, last, callers>>

NextBuffer == ConstructBuffered \/ CallToNdarray

SpecBuffer == InitDevice /\ [][NextBuffer]_vars

Thick(d, side) == IF d.buffer_spec.mode[side] = "constant" THEN d.buffer_spec.thickness ELSE 0

\* C2: to_ndarray() of a freshly constructed Device has the shape of the input when all
\* four sides have mode "edge"; a side whose mode is "constant" keeps its padding, so
\* the shape is larger by thickness on each such side and on no other, the input
\* sitting behind the padding kept on the top and on the left.
C2_BufferSymmetry ==
    pc = "to_ndarray" =>
        LET d == devices[1]
        IN /\ ret.array.h = raw.h + Thick(d, "top") + Thick(d, "bottom")
           /\ ret.array.w = raw.w + Thick(d, "left") + Thick(d, "right")
           /\ (\A side \in Sides : d.buffer_spec.mode[side] = "edge")
                 => (ret.array.h = raw.h /\ ret.array.w = raw.w)
           /\ \A c \in Cells(raw.h, raw.w) :
                 ret.array.a[<<c[1] + Thick(d, "top"), c[2] + Thick(d, "left")>>] = raw.a[c]

\* to_ndarray() was called on a Device padded by 2 whose top and right sides are
\* "constant" and whose other sides are "edge"
C2_Witness ==
    /\ pc = "to_ndarray"
    /\ raw.h = 2 /\ raw.w = 1
    /\ devices[1].buffer_spec.thickness = 2
    /\ devices[1].buffer_spec.mode["top"] = "constant"
    /\ devices[1].buffer_spec.mode["right"] = "constant"
    /\ devices[1].buffer_spec.mode["bottom"] = "edge"
    /\ devices[1].buffer_spec.mode["left"] = "edge"
    /\ ret.array.h = 4 /\ ret.array.w = 3

(***************************************************************************)
(* Device: the transform methods.  Each computes an array with a function  *)
(* of geometry.py and returns self.model_copy(update={"device_array": ...}).*)
(***************************************************************************)
MaxDevices == 3
RngPeriod == 3

\* tanh(beta * x) for beta = np.inf: inf * x is inf, -inf or (for x = 0) NaN
tanh_inf(x) == IF IsNaN(x) \/ x = 0 THEN NaN ELSE IF x > 0 THEN Unit ELSE 0 - Unit

\* binarize(device_array, eta, beta) for beta = np.inf (the default) and 0 < eta < 1;
\* the np.float64 scalars make the result float32 or float64, by numpy's version
binarize(A, eta, dtype) ==
    NdArray(A.h, A.w, dtype,
            [c \in Cells(A.h, A.w) |->
                Div(Add(tanh_inf(eta), tanh_inf(Sub(A.a[c], eta))),
                    Add(tanh_inf(eta), tanh_inf(Unit - eta)))])

\* geometry.binarize called with the default beta, for thresholds inside (0, 1)
BinarizeEtas == {30, 50}

CallBinarize == \E eta \in BinarizeEtas, dtype \in {"float32", "float64"} :
                   Returns("binarize", <<eta>>, binarize(arg, eta, dtype))

NextBinarize == CallBinarize

SpecBinarize == InitGeom /\ [][NextBinarize]_vars

\* C17: for a raster with values in [0, 1] and eta in (0, 1), binarize with beta =
\* infinity returns at every pixel what binarize_hard returns, also where the value
\* equals eta
C17_HardStepAtEta ==
    (pc = "binarize" /\ InUnitRange(arg) /\ 0 < par[1] /\ par[1] < Unit)
        => ret.array.a = binarize_hard(arg, par[1]).a

\* the i-th value np.random.normal draws from state s, in standard deviations
StdNormal(s, i) == ((s + i) % 3) - 1

\* every library function drawing from numpy's global generator
Draws_every_function(op, A) == 1 + A.h * A.w

\* the values a call of the library function draws from numpy's global generator
Draws(op, A) == IF op = "binarize_monte_carlo" THEN 1 + A.h * A.w ELSE 0

\* np.clip(x, lo, hi)
np_clip(x, lo, hi) == Min2(Max2(x, lo), hi)

\* binarize_monte_carlo(device_array, threshold_noise_std, threshold_blur_std), the
\* generator being in state s
binarize_monte_carlo(A, threshold_noise_std, threshold_blur_std, s) ==
    LET base_threshold == np_clip(Unit \div 2 + (Unit \div 4) * StdNormal(s, 0),
                                  40, 60)
        threshold_noise ==
            NdArray(A.h, A.w, "float64",
                    [c \in Cells(A.h, A.w) |->
                        threshold_noise_std * Unit * StdNormal(s, 1 + c[1] * A.w + c[2])])
        spatial_threshold == GaussianBlur(threshold_noise, threshold_blur_std)
        dynamic_threshold == [c \in Cells(A.h, A.w) |->
                                 Add(base_threshold, spatial_threshold.a[c])]
    IN NdArray(A.h, A.w, "float64",
               [c \in Cells(A.h, A.w) |->
                   IF Lt(A.a[c], dynamic_threshold[c]) THEN 0 ELSE Unit])

\* cv2.warpAffine with the matrix of cv2.getRotationMatrix2D(center=(w / 2, h / 2),
\* angle, 1), for angle 0 and 180: at 180 the pixel (y, x) is read from (h - y, w - x),
\* and is 0 where that lies outside the array
rotate(A, angle) ==
    NdArray(A.h, A.w, A.dtype,
            [c \in Cells(A.h, A.w) |->
                IF angle = 0 THEN A.a[c]
                ELSE IF c[1] >= 1 /\ c[2] >= 1 THEN A.a[<<A.h - c[1], A.w - c[2]>>]
                ELSE 0])

\* the values under a kernel_size x kernel_size kernel anchored at its centre
Window(A, c, kernel_size) ==
    { A.a[n] : n \in { m \in Cells(A.h, A.w) :
                         /\ m[1] - c[1] \in 0 - kernel_size \div 2 .. kernel_size - 1 - kernel_size \div 2
                         /\ m[2] - c[2] \in 0 - kernel_size \div 2 .. kernel_size - 1 - kernel_size \div 2 } }

\* cv2.erode(device_array, kernel=np.ones((kernel_size, kernel_size))): the minimum
\* under the kernel, the border not counting
erode(A, kernel_size) ==
    NdArray(A.h, A.w, A.dtype,
            [c \in Cells(A.h, A.w) |->
                IF NaN \in Window(A, c, kernel_size) THEN NaN
                ELSE SetMin(Window(A, c, kernel_size))])

\* cv2.dilate(device_array, kernel=np.ones((kernel_size, kernel_size))): the maximum
dilate(A, kernel_size) ==
    NdArray(A.h, A.w, A.dtype,
            [c \in Cells(A.h, A.w) |->
                IF NaN \in Window(A, c, kernel_size) THEN NaN
                ELSE SetMax(Window(A, c, kernel_size))])

\* model_copy updating the receiver as well as the copy
model_copy_updating_self(devs, i, ref, by) ==
    Append([devs EXCEPT ![i].array = ref], Device(ref, devs[i].buffer_spec, by))

\* self.model_copy(update={"device_array": ...}) added to the Devices: a new Device
\* with the receiver's BufferSpec
model_copy(devs, i, ref, by) == Append(devs, Device(ref, devs[i].buffer_spec, by))

\* the call that made a Device
By(op, i, params) == [op |-> op, recv |-> i, params |-> params]

\* a method of Device i that computes the array A and returns the copy holding it
Transform(op, i, params, A) ==
    /\ i \in 1 .. Len(devices)
    /\ Len(devices) < MaxDevices
    /\ heap' = Append(heap, A)
    /\ devices' = model_copy(devices, i, WholeRef(Len(heap) + 1, A), By(op, i, params))
    /\ np_random' = (np_random + Draws(op, self_device_array(devices[i]))) % RngPeriod
    /\ last' = [op |-> op, recv |-> i, exc |-> "none"]
    /\ UNCHANGED <<pc, arg, par, wire, ret, raw, prefab_toml, posted, callers>>

DeviceNormalize(i) ==
    Transform("normalize", i, << >>, normalize(self_device_array(devices[i])))

DeviceBinarize(i) ==
    \E dtype \in {"float32", "float64"} :
        Transform("binarize", i, <<50>>, binarize(self_device_array(devices[i]), 50, dtype))

DeviceBinarizeHard(i) ==
    Transform("binarize_hard", i, <<50>>, binarize_hard(self_device_array(devices[i]), 50))

DeviceBinarizeMonteCarlo(i) ==
    Transform("binarize_monte_carlo", i, <<2, 9>>,
              binarize_monte_carlo(self_device_array(devices[i]), 2, 9, np_random))

DeviceTernarize(i) ==
    Transform("ternarize", i, <<33, 67>>, ternarize(self_device_array(devices[i]), 33, 67))

DeviceBlur(i) == Transform("blur", i, <<1>>, blur(self_device_array(devices[i]), 1))

DeviceRotate(i) ==
    \E angle \in {0, 180} :
        Transform("rotate", i, <<angle>>, rotate(self_device_array(devices[i]), angle))

DeviceErode(i) == Transform("erode", i, <<3>>, erode(self_device_array(devices[i]), 3))

DeviceDilate(i) == Transform("dilate", i, <<3>>, dilate(self_device_array(devices[i]), 3))

\* Device.trim: geometry.trim with the BufferSpec's thickness; the new Device's array
\* is a view of the receiver's, and an exception leaves no new Device
DeviceTrim(i) ==
    /\ i \in 1 .. Len(devices)
    /\ Len(devices) < MaxDevices
    /\ LET d == devices[i]
           win == trim_window(self_device_array(d), d.buffer_spec.thickness)
       IN IF win.exc # "none"
          THEN /\ last' = [op |-> "trim", recv |-> i, exc |-> win.exc]
               /\ UNCHANGED devices
          ELSE /\ devices' = model_copy(devices, i,
                                 Ref(d.array.base, d.array.row0 + win.row_min,
                                     d.array.col0 + win.col_min,
                                     win.row_max - win.row_min, win.col_max - win.col_min),
                                 By("trim", i, << >>))
               /\ last' = [op |-> "trim", recv |-> i, exc |-> "none"]
    /\ UNCHANGED <<pc, arg, par, wire, ret, raw, heap, np_random, prefab_toml, posted, callers>>

\* the inputs and BufferSpecs the Device specification constructs from
Row(values) == NdArray(1, Len(values), "float64", [c \in Cells(1, Len(values)) |-> values[c[2] + 1]])
DeviceRaws == { Row(<<0>>), Row(<<100>>), Row(<<30>>), Row(<<100, 0>>) }
DeviceSpecs == { BufferSpec([side \in Sides |-> m], 1) : m \in Modes }

ConstructDevice == \E A \in DeviceRaws, bs \in DeviceSpecs :
                      last.op = "none" /\ Construct(A, bs)

Next == \/ ConstructDevice
        \/ \E i \in 1 .. MaxDevices :
              \/ DeviceNormalize(i)
              \/ DeviceBinarize(i)
              \/ DeviceBinarizeHard(i)
              \/ DeviceBinarizeMonteCarlo(i)
              \/ DeviceTernarize(i)
              \/ DeviceTrim(i)
              \/ DeviceBlur(i)
              \/ DeviceRotate(i)
              \/ DeviceErode(i)
              \/ DeviceDilate(i)

Spec == InitDevice /\ [][Next]_vars

\* the array of Device i with the heap and the Devices as the step leaves them
device_array_after(i) == Deref(heap', devices'[i].array)

\* the rasters of two arrays: the shape and every value
SameRaster(A, B) == A.h = B.h /\ A.w = B.w /\ A.a = B.a

\* Devices i and j were returned by the same transform, with the same parameters, of
\* receivers with the same raster
SameCall(i, j) ==
    /\ devices[i].by.op = devices[j].by.op
    /\ devices[i].by.op # "__init__"
    /\ devices[i].by.params = devices[j].by.params
    /\ SameRaster(self_device_array(devices[devices[i].by.recv]),
                  self_device_array(devices[devices[j].by.recv]))

C7_IsBinary ==
    \A i \in 1 .. Len(devices) :
        is_binary(devices[i])
            <=> Values(self_device_array(devices[i])) \in {{0}, {Unit}, {0, Unit}}

\* a raster holding 0.3 beside a raster of 0 and 1
C7_Witness ==
    \E i, j \in 1 .. Len(devices) :
        /\ 30 \in Values(self_device_array(devices[i]))
        /\ ~is_binary(devices[i])
        /\ Values(self_device_array(devices[j])) = {0, Unit}
        /\ is_binary(devices[j])

\* C9: trim on a Device whose raster has no nonzero element raises ValueError, returns
\* no Device and leaves the Devices and their arrays as they were
C9_TrimAllZeroRaises ==
    [][(last'.op = "trim" /\ nonzero(self_device_array(devices[last'.recv])) = {})
          => (last'.exc = "ValueError" /\ devices' = devices /\ heap' = heap)]_vars

\* trim has raised on a Device whose raster is all zero
C9_Witness ==
    /\ last.op = "trim"
    /\ last.exc = "ValueError"
    /\ nonzero(self_device_array(devices[last.recv])) = {}
    /\ Len(devices) >= 2

(***************************************************************************)
(* Device._predict, behind predict, correct and semulate.                  *)
(***************************************************************************)
MaxPosted == 2

\* the float32 values of the rasters the service answers with, and their bytes
Float32Table == { <<0, <<0, 0, 0, 0>> >>, <<30, <<154, 153, 153, 62>> >>,
                  <<50, <<0, 0, 0, 63>> >>,
                  <<100, <<0, 0, 128, 63>> >>, <<NaN, <<0, 0, 192, 127>> >> }
Float32Value(word) == (CHOOSE e \in Float32Table : e[2] = word)[1]
Float32Word(x) == (CHOOSE e \in Float32Table : e[1] = x)[2]

\* np.frombuffer(..., dtype=np.float32) with its shape set: the array of a memory
FromMemory(M) ==
    NdArray(M.h, M.w, "float32",
            [c \in Cells(M.h, M.w) |->
                Float32Value(SubSeq(M.mem, 4 * (c[1] * M.w + c[2]) + 1,
                                    4 * (c[1] * M.w + c[2]) + 4))])

\* the memory of a float32 array of table values
ToMemory(A) ==
    Memory(A.h, A.w, 4, Flatten([k \in 1 .. A.h * A.w |->
                                    Float32Word(A.a[<<(k - 1) \div A.w, (k - 1) % A.w>>])]))

\* the IEEE 754 formats of numpy's float32 and float64: bits of the exponent and of
\* the fraction
Binary32 == [ebits |-> 8, fbits |-> 23]
Binary64 == [ebits |-> 11, fbits |-> 52]
FormatOf(dtype) == IF dtype = "float32" THEN Binary32 ELSE Binary64
itemsize(dtype) == (1 + FormatOf(dtype).ebits + FormatOf(dtype).fbits) \div 8

\* num / den as a number of [1, 2) times 2^e
RECURSIVE Normalized(_, _, _)
Normalized(num, den, e) ==
    IF num >= 2 * den THEN Normalized(num, 2 * den, e + 1)
    ELSE IF num < den THEN Normalized(2 * num, den, e - 1)
    ELSE [num |-> num, den |-> den, e |-> e]

\* the first n binary digits of r / den (below 1) as a number, and what is left
RECURSIVE FractionInt(_, _, _)
FractionInt(r, den, n) ==
    IF n = 0 THEN [m |-> 0, r |-> r]
    ELSE LET b == IF 2 * r >= den THEN 1 ELSE 0
             rest == FractionInt(2 * r - b * den, den, n - 1)
         IN [m |-> b * 2 ^ (n - 1) + rest.m, r |-> rest.r]

\* the next n bytes of binary digits of r / den, and what is left
RECURSIVE FractionBytes(_, _, _)
FractionBytes(r, den, n) ==
    IF n = 0 THEN [bytes |-> << >>, r |-> r]
    ELSE LET first == FractionInt(r, den, 8)
             rest == FractionBytes(first.r, den, n - 1)
         IN [bytes |-> << first.m >> \o rest.bytes, r |-> rest.r]

\* a numeral of bytes plus one, the carry going into the first item
RECURSIVE Incremented(_)
Incremented(digits) ==
    LET n == Len(digits)
    IN IF n = 1 THEN << digits[1] + 1 >>
       ELSE IF digits[n] < 255 THEN SubSeq(digits, 1, n - 1) \o << digits[n] + 1 >>
       ELSE Incremented(SubSeq(digits, 1, n - 1)) \o << 0 >>

\* the bytes of an item x >= 0 or NaN in a format, least significant first, rounded to
\* nearest, ties to even: the sign, the exponent and the first digits of the fraction
\* make the last two bytes, the rest of the fraction the bytes before them
ItemBytes(x, format) ==
    LET ebits == format.ebits
        hbits == 15 - ebits
        nbytes == (format.fbits - hbits) \div 8
        littleEndian(digits) == [k \in 1 .. nbytes |-> digits[nbytes + 2 - k]]
                                   \o << digits[1] % 256, digits[1] \div 256 >>
        zeros == [k \in 1 .. nbytes |-> 0]
    IN IF IsNaN(x)
       THEN littleEndian(<< (2 ^ ebits - 1) * 2 ^ hbits + 2 ^ (hbits - 1) >> \o zeros)
       ELSE IF x = 0 THEN littleEndian(<< 0 >> \o zeros)
       ELSE LET nz == Normalized(x, Unit, 0)
                first == FractionInt(nz.num - nz.den, nz.den, hbits)
                rest == FractionBytes(first.r, nz.den, nbytes)
                up == \/ 2 * rest.r > nz.den
                      \/ 2 * rest.r = nz.den /\ rest.bytes[nbytes] % 2 = 1
                digits == << (nz.e + 2 ^ (ebits - 1) - 1) * 2 ^ hbits + first.m >> \o rest.bytes
            IN littleEndian(IF up THEN Incremented(digits) ELSE digits)

\* array.tobytes(): the items in row major order, each in the format of the dtype
tobytes(A) ==
    Memory(A.h, A.w, itemsize(A.dtype),
           Flatten([k \in 1 .. A.h * A.w |->
                       ItemBytes(A.a[<<(k - 1) \div A.w, (k - 1) % A.w>>], FormatOf(A.dtype))]))

\* the prediction the service computes, as it puts it in "prediction_array"
\* (0.3 and 0.5 over 1.0 and NaN)
ServicePrediction ==
    _encode_array(ToMemory(NdArray(2, 2, "float32",
                      [c \in Cells(2, 2) |-> IF c = <<0, 0>> THEN 30
                                             ELSE IF c = <<0, 1>> THEN Unit \div 2
                                             ELSE IF c = <<1, 0>> THEN Unit
                                             ELSE NaN])))

\* the responses of the service: the status, the fields of the JSON body, and the
\* value of "prediction_array" where the body has it
Bodies == { {}, {"error"}, {"prediction_array"},
            {"prediction_array", "new_access_token", "new_refresh_token"},
            {"prediction_array", "new_refresh_token"},
            {"prediction_array", "new_access_token"},
            {"error", "new_access_token", "new_refresh_token"},
            {"new_access_token", "new_refresh_token"} }
Response(status, body) ==
    [status |-> status, body |-> body,
     prediction_array |-> IF "prediction_array" \in body THEN ServicePrediction ELSE << >>]
Responses == { Response(200, body) : body \in Bodies } \cup { Response(500, {}) }

\* the responses of a service that answers with a prediction, with or without new
\* tokens, or with a status that is not 200
PlainResponses == { Response(200, {"prediction_array"}),
                    Response(200, {"prediction_array", "new_access_token", "new_refresh_token"}),
                    Response(500, {}) }

\* the tokens the service issues
NewToken == 2

\* warnings.warn(..., UserWarning) raising the warning as an exception
warnings_warn_raising(issued) ==
    [warned |-> issued, exc |-> IF issued THEN "UserWarning" ELSE "none"]

\* if not self.is_binary(): warnings.warn(..., UserWarning): the warning is issued
\* and the call goes on
warnings_warn(issued) == [warned |-> issued, exc |-> "none"]

\* _predict returning the decoded prediction whatever binarize is
_predict_never_binarizing(toml, response, do_binarize) ==
    LET decoded == _decode_array(response.prediction_array)
        prediction_array == FromMemory(decoded.array)
        emptied == [access_token |-> 0, refresh_token |-> 0]
        rotated == [access_token |-> NewToken, refresh_token |-> NewToken]
    IN IF toml.access_token = 0 \/ toml.refresh_token = 0
           THEN [exc |-> "UnboundLocalError", sent |-> FALSE, toml |-> toml]
       ELSE IF response.status # 200 \/ "error" \in response.body
           THEN [exc |-> "ValueError", sent |-> TRUE, toml |-> toml]
       ELSE IF "prediction_array" \in response.body /\ decoded.exc # "none"
           THEN [exc |-> decoded.exc, sent |-> TRUE, toml |-> toml]
       ELSE IF "new_refresh_token" \in response.body /\ "new_access_token" \notin response.body
           THEN [exc |-> "KeyError", sent |-> TRUE, toml |-> emptied]
       ELSE IF "prediction_array" \notin response.body
           THEN [exc |-> "UnboundLocalError", sent |-> TRUE,
                 toml |-> IF "new_refresh_token" \in response.body THEN rotated ELSE toml]
       ELSE [exc |-> "none", sent |-> TRUE, array |-> prediction_array,
             toml |-> IF "new_refresh_token" \in response.body THEN rotated ELSE toml]

\* Device._predict from the reading of the credential file on: the exception raised
\* ("none": it returns), the array of the returned Device, and the credential file
\* as the call leaves it
_predict(toml, response, do_binarize) ==
    LET decoded == _decode_array(response.prediction_array)
        prediction_array == IF do_binarize THEN binarize_hard(FromMemory(decoded.array), Unit \div 2)
                            ELSE FromMemory(decoded.array)
        emptied == [access_token |-> 0, refresh_token |-> 0]
        rotated == [access_token |-> NewToken, refresh_token |-> NewToken]
    IN IF toml.access_token = 0 \/ toml.refresh_token = 0
           THEN [exc |-> "UnboundLocalError", sent |-> FALSE, toml |-> toml]
       ELSE IF response.status # 200 \/ "error" \in response.body
           THEN [exc |-> "ValueError", sent |-> TRUE, toml |-> toml]
       ELSE IF "prediction_array" \in response.body /\ decoded.exc # "none"
           THEN [exc |-> decoded.exc, sent |-> TRUE, toml |-> toml]
       ELSE IF "new_refresh_token" \in response.body /\ "new_access_token" \notin response.body
           THEN [exc |-> "KeyError", sent |-> TRUE, toml |-> emptied]
       ELSE IF "prediction_array" \notin response.body
           THEN [exc |-> "UnboundLocalError", sent |-> TRUE,
                 toml |-> IF "new_refresh_token" \in response.body THEN rotated ELSE toml]
       ELSE [exc |-> "none", sent |-> TRUE, array |-> prediction_array,
             toml |-> IF "new_refresh_token" \in response.body THEN rotated ELSE toml]

\* predict, correct or semulate on Device i, the service answering with one of the
\* responses: a warning when the Device is not binary, the request posted, and the
\* Device holding the prediction returned, or an exception
ServiceCall(op, i, do_binarize, responses) ==
    LET warning == warnings_warn(~is_binary(devices[i]))
        device_array == _encode_array(tobytes(self_device_array(devices[i])))
    IN \E response \in responses :
        LET out == IF warning.exc # "none"
                   THEN [exc |-> warning.exc, sent |-> FALSE, toml |-> prefab_toml]
                   ELSE _predict(prefab_toml, response, do_binarize)
        IN /\ i \in 1 .. Len(devices)
           /\ Len(devices) < MaxDevices
           /\ posted < MaxPosted
           /\ posted' = posted + 1
           /\ prefab_toml' = out.toml
           /\ last' = [op |-> op, recv |-> i, exc |-> out.exc,
                       warned |-> warning.warned, sent |-> out.sent,
                       predict_data |-> [device_array |-> device_array,
                                         binary |-> do_binarize],
                       response |-> IF out.sent THEN response ELSE Response(0, {})]
           /\ IF out.exc # "none"
              THEN UNCHANGED <<heap, devices>>
              ELSE /\ heap' = Append(heap, out.array)
                   /\ devices' = model_copy(devices, i, WholeRef(Len(heap) + 1, out.array),
                                            By(op, i, <<do_binarize>>))
           /\ UNCHANGED <<pc, arg, par, wire, ret, raw, np_random, callers>>

DevicePredict(i, responses) ==
    \E do_binarize \in BOOLEAN : ServiceCall("predict", i, do_binarize, responses)
DeviceCorrect(i, responses) ==
    \E do_binarize \in BOOLEAN : ServiceCall("correct", i, do_binarize, responses)
DeviceSemulate(i, responses) == ServiceCall("semulate", i, FALSE, responses)

\* a 1x2 image of 8-bit integers, the same items as a nested list, and arrays of one
\* and of three dimensions
ServiceRaws == { NdArray(1, 2, "uint8", Row(<<100, 0>>).a) }
ServiceGivens == { Given(TRUE, 2, A) : A \in ServiceRaws }
                     \cup { Given(FALSE, 2, A) : A \in ServiceRaws }
                     \cup { Given(TRUE, 1, NoArray), Given(TRUE, 3, NoArray) }
ServiceSpecs == { BufferSpec([side \in Sides |-> "constant"], 1) }

ConstructClient == \E given \in ServiceGivens, bs \in ServiceSpecs :
                      last.op = "none" /\ Device_init(given, bs)

NextService == \/ ConstructClient
               \/ \E i \in 1 .. MaxDevices :
                     \/ DeviceNormalize(i)
                     \/ DeviceBinarize(i)
                     \/ DeviceBinarizeHard(i)
                     \/ DeviceBinarizeMonteCarlo(i)
                     \/ DeviceTernarize(i)
                     \/ DeviceTrim(i)
                     \/ DeviceBlur(i)
                     \/ DeviceRotate(i)
                     \/ DeviceErode(i)
                     \/ DeviceDilate(i)
                     \/ DevicePredict(i, PlainResponses)
                     \/ DeviceCorrect(i, PlainResponses)
                     \/ DeviceSemulate(i, PlainResponses)

SpecService == InitDevice /\ [][NextService]_vars

\* a client that constructs a Device and calls the service, which answers anything
ClientRaws == { Row(<<100, 0>>), Row(<<30>>) }

ConstructForService == \E A \in ClientRaws, bs \in ServiceSpecs :
                          last.op = "none" /\ Construct(A, bs)

NextClient == \/ ConstructForService
              \/ \E i \in 1 .. MaxDevices :
                    \/ DevicePredict(i, Responses)
                    \/ DeviceCorrect(i, Responses)
                    \/ DeviceSemulate(i, Responses)

SpecClient == InitDevice /\ [][NextClient]_vars

ServiceOps == {"predict", "correct", "semulate"}

\* C13: a service call that got a response ends by returning a Device or by raising
\* ValueError, and by ValueError whenever the status is not 200 or the body has an
\* "error" field
C13_ReturnsOrValueError ==
    (last.op \in ServiceOps /\ last.sent) =>
        /\ last.exc \in {"none", "ValueError"}
        /\ (last.response.status # 200 \/ "error" \in last.response.body)
              => last.exc = "ValueError"

\* C14: a service call warns exactly when the raster of its receiver has a value other
\* than 0 and 1; the warning does not end the call: the request is posted unless the
\* credential file lacks a token, it carries the receiver's raster as it is, and a
\* response with a prediction makes the call return
C14_WarnsAndProceeds ==
    last.op \in ServiceOps =>
        /\ last.warned <=> Values(self_device_array(devices[last.recv])) \notin {{0}, {Unit}, {0, Unit}}
        /\ ~last.sent => (prefab_toml.access_token = 0 \/ prefab_toml.refresh_token = 0)
        /\ last.predict_data.device_array
              = _encode_array(tobytes(self_device_array(devices[last.recv])))
        /\ (last.sent /\ last.response.status = 200 /\ last.response.body = {"prediction_array"})
              => last.exc = "none"

\* a call on a Device that is not binary has warned, posted and returned
C14_Witness ==
    /\ last.op \in ServiceOps
    /\ last.warned
    /\ last.sent
    /\ last.exc = "none"
    /\ last.predict_data.device_array
              = _encode_array(tobytes(self_device_array(devices[last.recv])))
    /\ ~is_binary(devices[last.recv])

\* C15: after a service call whose response has a new token, the credential file holds
\* the new access token and the new refresh token
C15_TokensPersisted ==
    (/\ last.op \in ServiceOps
     /\ last.sent
     /\ last.response.body \cap {"new_access_token", "new_refresh_token"} # {})
        => prefab_toml = [access_token |-> NewToken, refresh_token |-> NewToken]

\* C19: predict and correct with binarize=True return a Device whose raster is 0 where
\* the decoded prediction is below 0.5 and 1 elsewhere, a binary raster; with
\* binarize=False they return the decoded prediction
C19_BinarizedPrediction ==
    (last.op \in {"predict", "correct"} /\ last.exc = "none") =>
        LET returned == self_device_array(devices[Len(devices)])
            decoded == FromMemory(_decode_array(last.response.prediction_array).array)
        IN /\ returned.h = decoded.h /\ returned.w = decoded.w
           /\ IF last.predict_data.binary
              THEN /\ \A c \in Cells(decoded.h, decoded.w) :
                        returned.a[c] = IF Lt(decoded.a[c], Unit \div 2) THEN 0 ELSE Unit
                   /\ is_binary(devices[Len(devices)])
              ELSE returned.a = decoded.a

\* correct with binarize=True has returned a Device for a prediction with 0.3 and 0.5
C19_Witness ==
    /\ last.op = "correct"
    /\ last.exc = "none"
    /\ last.predict_data.binary
    /\ devices[Len(devices)].by.op = "correct"
    /\ Values(self_device_array(devices[Len(devices)])) = {0, Unit}
    /\ {30, Unit \div 2} \subseteq Values(FromMemory(_decode_array(last.response.prediction_array).array))

\* C3: a transform or service call leaves every Device there was, the receiver among
\* them, with its raster and BufferSpec as before, and the Device it returns has the
\* receiver's BufferSpec
C3_ReceiverUnchanged ==
    [][/\ Len(devices') >= Len(devices)
       /\ \A i \in 1 .. Len(devices) :
             /\ devices'[i].buffer_spec = devices[i].buffer_spec
             /\ device_array_after(i) = self_device_array(devices[i])
       /\ (Len(devices') > Len(devices) /\ last'.op # "__init__")
             => /\ Len(devices') = Len(devices) + 1
                /\ devices'[Len(devices')].buffer_spec = devices[last'.recv].buffer_spec]_vars

\* a trimmed Device, which shows the memory of its receiver, has been the receiver of
\* a service call that returned a Device
C3_Witness ==
    /\ Len(devices) = 3
    /\ devices[2].by.op = "trim"
    /\ devices[2].array.base = devices[1].array.base
    /\ devices[2].array.w < devices[1].array.w
    /\ devices[3].by.op \in {"predict", "correct", "semulate"}
    /\ devices[3].by.recv = 2
    /\ last.op = devices[3].by.op

\* C21: the device_array of the request of a service call is the codec string of the
\* receiver's raster: a header of its height and width, then 4 * height * width bytes
\* of float32 items, and decoding it gives the shape and the values of the raster
C21_RequestCarriesFloat32 ==
    last.op \in ServiceOps =>
        LET A == self_device_array(devices[last.recv])
            serialized_array == b64decode(last.predict_data.device_array)
            decoded == _decode_array(last.predict_data.device_array)
        IN /\ UnpackBE(SubSeq(serialized_array, 1, 4)) = A.h
           /\ UnpackBE(SubSeq(serialized_array, 5, 8)) = A.w
           /\ Len(serialized_array) = 8 + 4 * A.h * A.w
           /\ decoded.exc = "none"
           /\ decoded.array = tobytes(astype_float32(A))

\* the dtypes numpy counts as floating point
FloatDtypes == {"float32", "float64"}

\* an array of two dimensions: one item for every pair of a row and a column
IsTwoDimensional(A) == DOMAIN A.a = Cells(A.h, A.w)

\* C18: the raster of every Device reached by construction, transforms and service
\* calls that returned has two dimensions and a floating point dtype; and when the
\* input of a construction is not an ndarray of two dimensions, the construction
\* raises an error and there is no Device
C18_TwoDimensionalFloat ==
    /\ \A i \in 1 .. Len(devices) :
          LET A == self_device_array(devices[i])
          IN IsTwoDimensional(A) /\ A.dtype \in FloatDtypes
    /\ (last.op = "__init__" /\ ~(raw.ndarray /\ raw.ndim = 2))
          => (last.exc = "ValueError" /\ devices = << >>)

\* an image of 8-bit integers became a Device, a transform of it made a Device of
\* float64, and a service call on that one returned a Device
C18_Witness ==
    /\ Len(devices) = 3
    /\ raw.array.dtype = "uint8"
    /\ devices[2].by.op = "binarize_hard"
    /\ self_device_array(devices[2]).dtype = "float64"
    /\ devices[3].by.op \in ServiceOps
    /\ devices[3].by.recv = 2
    /\ self_device_array(devices[3]).dtype = "float32"

(***************************************************************************)
(* Device._device_to_gdstk: polygons from the contours of the raster.      *)
(*                                                                         *)
(* The images are nests of squares on the diagonal, and lines one pixel    *)
(* high.  A contour is [lo, hi, line]: a square contour runs through the   *)
(* centres of the pixels lo and hi, in both directions; a line contour     *)
(* runs along row lo from column lo to column hi.  A polygon is taken as   *)
(* the set of unit cells between pixel centres that it covers.             *)
(***************************************************************************)
GdsMaxSide == 8
GdsMaxContours == 4

Contour(lo, hi, line) == [lo |-> lo, hi |-> hi, line |-> line]

ContourShapes == { Contour(iv[1], iv[2], ln) :
                     iv \in { x \in (0 .. GdsMaxSide - 1) \X (0 .. GdsMaxSide - 1) : x[1] <= x[2] },
                     ln \in BOOLEAN }

\* cv2.findContours(..., cv2.RETR_TREE, ...): the parent of the contour at position i
\* (counted from 1) of a list ordered outside in, as an index counted from 0; -1: none
Encloses(c, d) == ~c.line /\ c.lo <= d.lo /\ d.hi <= c.hi
ParentOf(cs, i) ==
    LET js == { j \in 1 .. i - 1 : Encloses(cs[j], cs[i]) }
    IN IF js = {} THEN 0 - 1 ELSE SetMax(js) - 1

RECURSIVE DepthOf(_, _)
DepthOf(cs, i) == IF ParentOf(cs, i) = 0 - 1 THEN 0 ELSE 1 + DepthOf(cs, ParentOf(cs, i) + 1)

RECURSIVE IsAncestor(_, _, _)
IsAncestor(cs, j, i) ==
    /\ ParentOf(cs, i) # 0 - 1
    /\ (ParentOf(cs, i) + 1 = j \/ IsAncestor(cs, j, ParentOf(cs, i) + 1))

\* the last contour of cs is one findContours can report after the others: a hole
\* (odd depth) has a pixel inside, a shape inside a hole (even depth) does not touch
\* the border of the hole, and shapes beside each other do not touch
FitsLast(cs) ==
    LET i == Len(cs)
        c == cs[i]
        p == ParentOf(cs, i)
        odd == DepthOf(cs, i) % 2 = 1
    IN /\ c.line => c.hi > c.lo /\ ~odd
       /\ i > 1 => \/ cs[i - 1].lo < c.lo
                   \/ cs[i - 1].lo = c.lo /\ cs[i - 1].hi >= c.hi /\ ~cs[i - 1].line
       /\ odd => c.hi - c.lo >= 2
       /\ (~odd /\ p # 0 - 1) => cs[p + 1].lo + 2 <= c.lo /\ c.hi <= cs[p + 1].hi - 2
       /\ \A j \in 1 .. i - 1 :
             \/ IsAncestor(cs, j, i)
             \/ IF odd /\ ParentOf(cs, j) = p THEN cs[j].hi <= c.lo
                ELSE cs[j].hi + 2 <= c.lo

RECURSIVE ContourLists(_)
ContourLists(n) ==
    IF n = 0 THEN { << >> }
    ELSE { x \in { Append(cs, c) : cs \in ContourLists(n - 1), c \in ContourShapes } :
             FitsLast(x) }

\* what findContours returns: the contours and, for each, hierarchy[0][idx][3], the
\* index of its parent; in either order of the list
Reversed(seq) == [k \in 1 .. Len(seq) |-> seq[Len(seq) + 1 - k]]

Found(cs, backwards) ==
    LET parents == [i \in 1 .. Len(cs) |-> ParentOf(cs, i)]
    IN IF ~backwards THEN [contours |-> cs, hierarchy |-> parents]
       ELSE [contours |-> Reversed(cs),
             hierarchy |-> [k \in 1 .. Len(cs) |->
                              IF Reversed(parents)[k] = 0 - 1 THEN 0 - 1
                              ELSE Len(cs) - 1 - Reversed(parents)[k]]]

\* the level of the contour idx (counted from 0): the parents walked up to the root
RECURSIVE LevelFrom(_, _, _)
LevelFrom(hierarchy, current_idx, level) ==
    IF hierarchy[current_idx + 1] = 0 - 1 THEN level
    ELSE LevelFrom(hierarchy, hierarchy[current_idx + 1], level + 1)

\* the pixels a contour bounds: a shape's own pixels, or the pixels of a hole
Pixels(c, level) ==
    IF c.line THEN { <<c.lo, x>> : x \in c.lo .. c.hi }
    ELSE IF level % 2 = 0 THEN (c.lo .. c.hi) \X (c.lo .. c.hi)
    ELSE (c.lo + 1 .. c.hi - 1) \X (c.lo + 1 .. c.hi - 1)

\* the image findContours was given: np.flipud(self.to_ndarray()).astype(np.uint8)
Image(found) ==
    LET n == Len(found.contours)
        lev(k) == LevelFrom(found.hierarchy, k - 1, 0)
        around(px) == { k \in 1 .. n : px \in Pixels(found.contours[k], lev(k)) }
        deepest(px) == SetMax({ lev(k) : k \in around(px) })
    IN NdArray(GdsMaxSide, GdsMaxSide, "uint8",
               [px \in Cells(GdsMaxSide, GdsMaxSide) |->
                   IF around(px) # {} /\ deepest(px) % 2 = 0 THEN 1 ELSE 0])

\* len(contour): the points cv2.CHAIN_APPROX_SIMPLE leaves of a contour
len(c) == IF c.lo = c.hi THEN 1 ELSE IF c.line THEN 2 ELSE 4

\* the cells a polygon of the points of a contour covers
Polygon(c) == IF c.line THEN {} ELSE (c.lo .. c.hi - 1) \X (c.lo .. c.hi - 1)

\* the cells a set of polygons covers
Covered(polygons) == UNION polygons

\* gdstk.boolean(operand1, operand2, operation): polygons that cover the union, or
\* the symmetric difference, of what the operands cover
gdstk_boolean(operand1, operand2, operation) ==
    LET a == Covered(operand1)
        b == Covered(operand2)
        region == IF operation = "or" THEN a \cup b ELSE (a \ b) \cup (b \ a)
    IN IF region = {} THEN {} ELSE { region }

\* every level combined by union
operation_or(level) == "or"

\* operation = "or" if level % 2 == 0 else "xor"
operation(level) == IF level % 2 = 0 THEN "or" ELSE "xor"

\* hierarchy_polygons: for each level that has one, the polygons of the contours of
\* more than 2 points at that level
hierarchy_polygons(contours, hierarchy) ==
    LET kept == { idx \in 0 .. Len(contours) - 1 : len(contours[idx + 1]) > 2 }
        keys == { LevelFrom(hierarchy, idx, 0) : idx \in kept }
    IN [level \in keys |->
           { Polygon(contours[idx + 1]) :
               idx \in { k \in kept : LevelFrom(hierarchy, k, 0) = level } }]

\* for level in sorted(hierarchy_polygons.keys()): processed_polygons = gdstk.boolean(...)
RECURSIVE ProcessLevels(_, _, _)
ProcessLevels(polygons_by_level, keys, processed_polygons) ==
    IF keys = {} THEN processed_polygons
    ELSE LET level == SetMin(keys)
         IN ProcessLevels(polygons_by_level, keys \ {level},
                          gdstk_boolean(polygons_by_level[level], processed_polygons,
                                        operation(level)))

\* _device_to_gdstk reading hierarchy[0] before the loop over the contours
_device_to_gdstk_reading_hierarchy(found) ==
    IF found.contours = << >> THEN [exc |-> "TypeError"]
    ELSE [exc |-> "none",
          cell |-> ProcessLevels(hierarchy_polygons(found.contours, found.hierarchy),
                                 DOMAIN hierarchy_polygons(found.contours, found.hierarchy),
                                 {})]

\* _device_to_gdstk from the return of findContours on: the polygons of the cell
_device_to_gdstk(found) ==
    [exc |-> "none",
     cell |-> ProcessLevels(hierarchy_polygons(found.contours, found.hierarchy),
                            DOMAIN hierarchy_polygons(found.contours, found.hierarchy),
                            {})]

\* every return of findContours with at most max contours
FindContoursReturns(max) ==
    { Found(cs, backwards) :
        cs \in UNION { ContourLists(n) : n \in 0 .. max }, backwards \in BOOLEAN }

InitGds == /\ pc = "start"
           /\ \E found \in FindContoursReturns(GdsMaxContours) : par = found /\ arg = Image(found)
           /\ wire = << >>
           /\ ret = [exc |-> "none"]
           /\ Idle

CallDeviceToGdstk == /\ pc = "start"
                     /\ pc' = "done"
                     /\ ret' = _device_to_gdstk(par)
                     /\ UNCHANGED <<arg, par, wire>>
                     /\ IdleUnchanged

NextGds == CallDeviceToGdstk

SpecGds == InitGds /\ [][NextGds]_vars

\* the cells whose innermost enclosing contour has an even level
EvenInside(found) ==
    LET n == Len(found.contours)
        lev(k) == LevelFrom(found.hierarchy, k - 1, 0)
        around(c) == { k \in 1 .. n : c \in Polygon(found.contours[k]) }
    IN { c \in Cells(GdsMaxSide, GdsMaxSide) :
           around(c) # {} /\ SetMax({ lev(k) : k \in around(c) }) % 2 = 0 }

\* C11: the polygons of the cell cover exactly the cells whose innermost enclosing
\* contour has an even level; a square alone gives the square, and a square with a
\* square hole gives the area of the square less the area of the hole
C11_HolesCarved ==
    pc = "done" =>
        /\ Covered(ret.cell) = EvenInside(par)
        /\ Len(par.contours) = 1 => Covered(ret.cell) = Polygon(par.contours[1])
        /\ Len(par.contours) = 2 =>
              \A o, h \in 1 .. 2 :
                  (par.hierarchy[o] = 0 - 1 /\ par.hierarchy[h] = o - 1)
                      => Cardinality(Covered(ret.cell))
                             = Cardinality(Polygon(par.contours[o]))
                                 - Cardinality(Polygon(par.contours[h]))

\* a square with a hole, a square in the hole and a hole in that square, the contours
\* listed inside out, has been turned into polygons
C11_Witness ==
    /\ pc = "done"
    /\ Len(par.contours) = 4
    /\ \E idx \in 0 .. 3 : LevelFrom(par.hierarchy, idx, 0) = 3
    /\ par.hierarchy[1] # 0 - 1
    /\ Covered(ret.cell) # {}
    /\ Covered(ret.cell) # Polygon(par.contours[4])

\* C12: an image of zeros has no contours, and the cell comes out without polygons and
\* without an exception
C12_EmptyCell ==
    (pc = "done" /\ Values(arg) = {0}) => (ret.exc = "none" /\ ret.cell = {})

\* an image of zeros has been turned into an empty cell
C12_Witness == pc = "done" /\ Values(arg) = {0} /\ par.contours = << >>

(***************************************************************************)
(* BufferSpec(mode=..., thickness=...): the validation of the fields.      *)
(***************************************************************************)
\* the mode dictionaries tried: sides to tokens, with all four sides, without
\* "bottom", and with none
ModeTokens == Modes \cup {"reflect"}
ModeDicts == UNION { [keys -> ModeTokens] : keys \in {Sides, Sides \ {"bottom"}, {}} }
Thicknesses == 0 - 1 .. BufMaxThick

\* BufferSpec.check_mode(v): every value of the dictionary is an allowed mode
check_mode(v) ==
    IF \A side \in DOMAIN v : v[side] \in Modes THEN "none" ELSE "ValueError"

\* thickness: conint(gt=0)
conint_gt_0(thickness) == IF thickness > 0 THEN "none" ELSE "ValueError"

\* BufferSpec(mode=mode, thickness=thickness): the BufferSpec, or a ValidationError (a
\* ValueError) when a validator rejects a field
BufferSpec_init(mode, thickness) ==
    IF check_mode(mode) # "none" \/ conint_gt_0(thickness) # "none"
    THEN [exc |-> "ValueError"]
    ELSE [exc |-> "none", buffer_spec |-> BufferSpec(mode, thickness)]

InitBufferSpec == /\ pc = "start"
                  /\ arg = NoArray
                  /\ par = << >>
                  /\ wire = << >>
                  /\ ret = [exc |-> "none"]
                  /\ Idle

ConstructBufferSpec == /\ pc = "start"
                       /\ \E mode \in ModeDicts, thickness \in Thicknesses :
                             /\ par' = <<mode, thickness>>
                             /\ ret' = BufferSpec_init(mode, thickness)
                       /\ pc' = "spec"
                       /\ UNCHANGED <<arg, wire>>
                       /\ IdleUnchanged

\* Device(device_array, buffer_spec) with the BufferSpec constructed, for a raster of
\* one pixel
ConstructWithBufferSpec == /\ pc = "spec"
                           /\ ret.exc = "none"
                           /\ \E v \in {0, Unit} : Construct(Row(<<v>>), ret.buffer_spec)

NextBufferSpec == ConstructBufferSpec \/ ConstructWithBufferSpec

SpecBufferSpec == InitBufferSpec /\ [][NextBufferSpec]_vars

\* C16: a constructed BufferSpec has a thickness above 0 and a mode giving each of
\* top, bottom, left and right one of constant and edge, and constructing a Device
\* with it raises nothing
C16_ValidBufferSpec ==
    /\ (pc = "spec" /\ ret.exc = "none") =>
          /\ ret.buffer_spec.thickness > 0
          /\ DOMAIN ret.buffer_spec.mode = Sides
          /\ \A side \in Sides : ret.buffer_spec.mode[side] \in Modes
    /\ last.op = "__init__" => last.exc = "none"


(***************************************************************************)
(* The four pad steps of Device._initial_processing taken in any order.    *)
(***************************************************************************)
\* the orders the four sides can be taken in
Orders == { order \in [1 .. 4 -> Sides] : \A i, j \in 1 .. 4 : i # j => order[i] # order[j] }

\* _initial_processing with its four np.pad statements in the given order
_initial_processing_in(order, device_array, buffer_spec) ==
    LET padded == PadStep(PadStep(PadStep(PadStep(
                      [exc |-> "none", array |-> device_array],
                      order[1], buffer_spec), order[2], buffer_spec),
                      order[3], buffer_spec), order[4], buffer_spec)
    IN IF padded.exc # "none" THEN padded
       ELSE [exc |-> "none", array |-> astype_float32(padded.array)]

InitPads == /\ pc = "start"
            /\ arg \in BufferRaws
            /\ par = << >>
            /\ wire = << >>
            /\ ret = [exc |-> "none"]
            /\ Idle

PadInOrder == /\ pc = "start"
              /\ \E buffer_spec \in BufferSpecs, order \in Orders :
                    /\ par' = <<buffer_spec, order>>
                    /\ ret' = _initial_processing_in(order, arg, buffer_spec)
              /\ pc' = "padded"
              /\ UNCHANGED <<arg, wire>>
              /\ IdleUnchanged

NextPads == PadInOrder

SpecPads == InitPads /\ [][NextPads]_vars

\* the padded raster has t more rows and columns on every side and shows the input
\* at offset (t, t)
PaddedAround(res, A, t) ==
    /\ res.exc = "none"
    /\ res.array.h = A.h + 2 * t
    /\ res.array.w = A.w + 2 * t
    /\ \A c \in Cells(A.h, A.w) : res.array.a[<<c[1] + t, c[2] + t>>] = A.a[c]

\* C20 as stated: for every raster, thickness and modes, the pads taken in any order
\* give what the order top, bottom, left, right of the construction gives, of shape
\* (h + 2t, w + 2t) with the input at offset (t, t)
C20_AnyOrderSamePadding ==
    pc = "padded" =>
        /\ ret = _initial_processing(arg, par[1])
        /\ PaddedAround(ret, arg, par[1].thickness)

\* C20 for rasters with at least one row and one column: the pads taken in any order
\* raise nothing and give what the order of the construction gives, of shape
\* (h + 2t, w + 2t) with the input at offset (t, t)
C20_AnyOrderSamePaddingNonEmpty ==
    (pc = "padded" /\ arg.h >= 1 /\ arg.w >= 1) =>
        /\ ret = _initial_processing(arg, par[1])
        /\ PaddedAround(ret, arg, par[1].thickness)

\* a raster of two rows and two columns padded right, left, bottom, top, with edge
\* above and to the right, constant below and to the left, and a thickness of 2
C20_Witness ==
    /\ pc = "padded"
    /\ arg.h = 2 /\ arg.w = 2
    /\ par[1].thickness = 2
    /\ par[1].mode["top"] = "edge" /\ par[1].mode["right"] = "edge"
    /\ par[1].mode["bottom"] = "constant" /\ par[1].mode["left"] = "constant"
    /\ par[2][1] = "right" /\ par[2][2] = "left" /\ par[2][3] = "bottom" /\ par[2][4] = "top"
    /\ ret.exc = "none"


(***************************************************************************)
(* geometry.pad_multiple: padding to a multiple of the slice length.       *)
(***************************************************************************)
PadMaxDim == 4
PadMaxSlice == 3
PadMaxFactor == 3

\* np.ceil(n / d) for n >= 0 and d >= 1
CeilDiv(n, d) == (n + d - 1) \div d

\* np.pad(array, [(before0, after0), (before1, after1)], mode="constant")
np_pad_constant(A, before0, after0, before1, after1) ==
    LET h == before0 + A.h + after0
        w == before1 + A.w + after1
    IN NdArray(h, w, A.dtype,
           [c \in Cells(h, w) |->
               IF /\ before0 <= c[1] /\ c[1] < before0 + A.h
                  /\ before1 <= c[2] /\ c[2] < before1 + A.w
               THEN A.a[<<c[1] - before0, c[2] - before1>>]
               ELSE 0])

\* pad_multiple with the floor of the pad in front and the ceiling behind
pad_multiple_floor_first(device_array, slice_length, pad_factor) ==
    LET twice_pady == (slice_length * CeilDiv(device_array.h, slice_length) - device_array.h)
                         + slice_length * (pad_factor - 1)
        twice_padx == (slice_length * CeilDiv(device_array.w, slice_length) - device_array.w)
                         + slice_length * (pad_factor - 1)
    IN np_pad_constant(device_array,
                       twice_pady \div 2, (twice_pady + 1) \div 2,
                       twice_padx \div 2, (twice_padx + 1) \div 2)

\* geometry.pad_multiple: pady and padx are halves, kept here as their doubles; the
\* ceiling of the half goes in front and the floor behind
pad_multiple(device_array, slice_length, pad_factor) ==
    LET twice_pady == (slice_length * CeilDiv(device_array.h, slice_length) - device_array.h)
                         + slice_length * (pad_factor - 1)
        twice_padx == (slice_length * CeilDiv(device_array.w, slice_length) - device_array.w)
                         + slice_length * (pad_factor - 1)
    IN np_pad_constant(device_array,
                       (twice_pady + 1) \div 2, twice_pady \div 2,
                       (twice_padx + 1) \div 2, twice_padx \div 2)

PadMultipleRaws == { Numbered(s[1], s[2]) : s \in (0 .. PadMaxDim) \X (0 .. PadMaxDim) }

InitPadMultiple == /\ pc = "start"
                   /\ arg \in PadMultipleRaws
                   /\ par = << >>
                   /\ wire = << >>
                   /\ ret = [exc |-> "none"]
                   /\ Idle

CallPadMultiple == \E slice_length \in 1 .. PadMaxSlice, pad_factor \in 1 .. PadMaxFactor :
                      Returns("pad_multiple", <<slice_length, pad_factor>>,
                              pad_multiple(arg, slice_length, pad_factor))

NextPadMultiple == CallPadMultiple

SpecPadMultiple == InitPadMultiple /\ [][NextPadMultiple]_vars

\* C23: pad_multiple makes each dimension d slice_length * ceil(d / slice_length)
\* + slice_length * (pad_factor - 1), a multiple of slice_length; the pad in front is
\* the pad behind or one more; the input is unchanged inside and all the rest is 0
C23_PadMultiple ==
    pc = "pad_multiple" =>
        LET slice_length == par[1]
            pad_factor == par[2]
            R == ret.array
            front0 == (R.h - arg.h + 1) \div 2
            front1 == (R.w - arg.w + 1) \div 2
            behind0 == R.h - arg.h - front0
            behind1 == R.w - arg.w - front1
        IN /\ \E n \in 0 .. PadMaxDim :
                 /\ slice_length * (n - 1) < arg.h /\ arg.h <= slice_length * n
                 /\ R.h = slice_length * n + slice_length * (pad_factor - 1)
           /\ \E n \in 0 .. PadMaxDim :
                 /\ slice_length * (n - 1) < arg.w /\ arg.w <= slice_length * n
                 /\ R.w = slice_length * n + slice_length * (pad_factor - 1)
           /\ R.h % slice_length = 0 /\ R.w % slice_length = 0
           /\ front0 - behind0 \in {0, 1} /\ front1 - behind1 \in {0, 1}
           /\ R.dtype = arg.dtype
           /\ \A c \in Cells(R.h, R.w) :
                 R.a[c] = IF /\ front0 <= c[1] /\ c[1] < front0 + arg.h
                             /\ front1 <= c[2] /\ c[2] < front1 + arg.w
                          THEN arg.a[<<c[1] - front0, c[2] - front1>>]
                          ELSE 0

\* a raster of 3 rows and 2 columns padded to slices of 2 with a factor of 2: two rows
\* in front and one behind, one column on each side
C23_Witness ==
    /\ pc = "pad_multiple"
    /\ arg.h = 3 /\ arg.w = 2
    /\ par = <<2, 2>>
    /\ ret.array.h = 6 /\ ret.array.w = 4
    /\ ret.array.a[<<2, 1>>] = arg.a[<<0, 0>>]
    /\ ret.array.a[<<5, 1>>] = 0


(***************************************************************************)
(* Device._predict called by concurrent callers that share ~/.prefab.toml: *)
(* each caller reads the file, posts, and on a response with a new refresh *)
(* token opens the file for writing and dumps the new pair. Nothing locks  *)
(* the file, so the steps of the callers interleave freely.                *)
(***************************************************************************)
MaxCallers == 2
Callers == 1 .. MaxCallers

\* the file with no token in it
Emptied == [access_token |-> 0, refresh_token |-> 0]

\* the k-th pair of tokens the service has issued; the file starts with the first
TokenPair(k) == [access_token |-> k, refresh_token |-> k]

\* a caller inside _predict: where it is, the tokens its reading of the file bound,
\* whether it read between another caller's open(..., "w") and toml.dump, whether it
\* has posted, the response with the number of the pair issued in it, the exception
Caller(at, tokens, torn, sent, response, issued, exc) ==
    [at |-> at, tokens |-> tokens, torn |-> torn, sent |-> sent,
     response |-> response, issued |-> issued, exc |-> exc]

\* the responses of the service to concurrent callers: a prediction, a prediction
\* with a new pair, a prediction with a new refresh token only, a status of 500
RaceResponses == { Response(200, {"prediction_array"}),
                   Response(200, {"prediction_array", "new_access_token", "new_refresh_token"}),
                   Response(200, {"prediction_array", "new_refresh_token"}),
                   Response(500, {}) }

\* the number of the pair the service issued last
LatestIssued == SetMax({1} \cup { callers[c].issued : c \in Callers })

\* open(prefab_file_path, "w") leaving the content in place
open_w_keeping(file) == file

\* open(prefab_file_path, "w"): the file is truncated
open_w(file) == Emptied

InitRace == /\ pc = "start"
            /\ arg = NoArray
            /\ par = << >>
            /\ wire = << >>
            /\ ret = [exc |-> "none"]
            /\ raw = NoArray
            /\ heap = << >>
            /\ devices = << >>
            /\ np_random = 0
            /\ prefab_toml = TokenPair(1)
            /\ posted = 0
            /\ last = [op |-> "none"]
            /\ callers = [c \in Callers |->
                             Caller("start", Emptied, FALSE, FALSE, Response(0, {}), 0, "none")]

RaceUnchanged == UNCHANGED <<pc, arg, par, wire, ret, raw, heap, devices, np_random>>

\* with open(...) as file: the lines are read and the tokens bound; building the
\* headers raises UnboundLocalError when a token was not found
ReadCredentials(c) ==
    LET torn == \E d \in Callers \ {c} : callers[d].at = "writing"
        unbound == prefab_toml.access_token = 0 \/ prefab_toml.refresh_token = 0
    IN /\ callers[c].at = "start"
       /\ callers' = [callers EXCEPT ![c] =
              Caller(IF unbound THEN "raised" ELSE "read", prefab_toml, torn, FALSE,
                     callers[c].response, 0, IF unbound THEN "UnboundLocalError" ELSE "none")]
       /\ UNCHANGED <<prefab_toml, posted, last>>
       /\ RaceUnchanged

\* requests.post and the reading of the response: ValueError when the status is not
\* 200, on to the rewriting of the file when there is a new refresh token, else return
Post(c) ==
    \E response \in RaceResponses :
        LET rotates == response.status = 200 /\ "new_refresh_token" \in response.body
            issued == IF rotates THEN LatestIssued + 1 ELSE 0
            at == IF response.status # 200 THEN "raised"
                  ELSE IF rotates THEN "rotating" ELSE "returned"
        IN /\ callers[c].at = "read"
           /\ posted' = posted + 1
           /\ callers' = [callers EXCEPT ![c] =
                  Caller(at, callers[c].tokens, callers[c].torn, TRUE, response, issued,
                         IF response.status # 200 THEN "ValueError" ELSE "none")]
           /\ UNCHANGED <<prefab_toml, last>>
           /\ RaceUnchanged

\* with open(prefab_file_path, "w", encoding="utf-8") as toml_file
OpenForWriting(c) ==
    /\ callers[c].at = "rotating"
    /\ prefab_toml' = open_w(prefab_toml)
    /\ callers' = [callers EXCEPT ![c].at = "writing"]
    /\ last' = [op |-> "open", recv |-> c]
    /\ UNCHANGED posted
    /\ RaceUnchanged

\* toml.dump of the new pair and the closing of the file; KeyError, with the file
\* left as open made it, when the response has no "new_access_token"
TomlDump(c) ==
    /\ callers[c].at = "writing"
    /\ IF "new_access_token" \notin callers[c].response.body
       THEN /\ callers' = [callers EXCEPT ![c].at = "raised", ![c].exc = "KeyError"]
            /\ UNCHANGED <<prefab_toml, last>>
       ELSE /\ prefab_toml' = TokenPair(callers[c].issued)
            /\ callers' = [callers EXCEPT ![c].at = "returned"]
            /\ last' = [op |-> "toml.dump", recv |-> c]
    /\ UNCHANGED posted
    /\ RaceUnchanged

NextRace == \E c \in Callers : \/ ReadCredentials(c)
                                \/ Post(c)
                                \/ OpenForWriting(c)
                                \/ TomlDump(c)

SpecRace == InitRace /\ [][NextRace]_vars

\* every caller has returned or raised
Ended(c) == callers[c].at \in {"returned", "raised"}

\* the file holds what the caller that wrote it last put there
LastWriterWins ==
    /\ last.op = "toml.dump" => prefab_toml = TokenPair(callers[last.recv].issued)
    /\ last.op = "open" => prefab_toml = Emptied
    /\ last.op = "none" => prefab_toml = TokenPair(1)

=============================================================================
